---- MODULE Spec2Model ----
(***************************************************************************)
(* Model of kindle_image_downloader.py: the capture loop of main(), the    *)
(* image interceptor save_response_images() and the pure helpers           *)
(* guess_extension() and save_frame_html().                                *)
(*                                                                         *)
(* Text is modelled as a sequence of one-character strings, bytes as a     *)
(* sequence of two-character hex tokens, so that prefix tests, splitting,  *)
(* replacing and concatenation are computed as the code computes them.     *)
(***************************************************************************)
EXTENDS Integers, Sequences, FiniteSets, TLC

(***************************************************************************)
(* Bounds of the model.                                                    *)
(***************************************************************************)
\* largest --max-pages / --stop-unchanged explored by LoopSpec
MaxPages == 5
MaxStop == 3
\* largest --max-pages, and the --stop-unchanged, explored by Spec (loop + interceptor)
RunMaxPages == 2
RunMaxStop == 1
\* number of responses observed in a run of Spec / of ImageSpec
RunMaxResponses == 2
MaxResponses == 3
\* largest --max-pages explored by FrameSpec
FrameMaxPages == 2

(***************************************************************************)
(* Text helpers (Python str methods used by the code).                     *)
(***************************************************************************)
Min(a, b) == IF a <= b THEN a ELSE b

\* s[:n]
Take(s, n) == SubSeq(s, 1, Min(n, Len(s)))

\* s[n:]  (0-based n, as in Python)
Drop(s, n) == SubSeq(s, n + 1, Len(s))

\* str.startswith
StartsWith(s, p) == Len(s) >= Len(p) /\ SubSeq(s, 1, Len(p)) = p

\* str.find: 1-based position of the first occurrence of p in s, 0 when absent
Find(s, p) ==
    LET hits == {i \in 1..(Len(s) - Len(p) + 1) : SubSeq(s, i, i + Len(p) - 1) = p}
    IN IF hits = {} THEN 0 ELSE CHOOSE i \in hits : \A j \in hits : i <= j

\* str.rfind: 1-based position of the last occurrence of p in s, 0 when absent
RFind(s, p) ==
    LET hits == {i \in 1..(Len(s) - Len(p) + 1) : SubSeq(s, i, i + Len(p) - 1) = p}
    IN IF hits = {} THEN 0 ELSE CHOOSE i \in hits : \A j \in hits : i >= j

\* str.split(sep)[0]
SplitFirst(s, sep) ==
    LET i == Find(s, sep) IN IF i = 0 THEN s ELSE SubSeq(s, 1, i - 1)

\* the characters str.strip() removes, as far as a string of this language
\* can hold them: space, \t, \n, \r, \f; Python removes \x0b, \x1c-\x1f,
\* \x85 and the other Unicode spaces as well, which the model's texts
\* never contain
Whitespace == {" ", "\t", "\n", "\r", "\f"}

\* str.strip(): from the first to the last character that is not whitespace
Strip(s) ==
    LET keep == {i \in 1..Len(s) : s[i] \notin Whitespace}
    IN IF keep = {} THEN <<>>
       ELSE SubSeq(s, CHOOSE i \in keep : \A j \in keep : i <= j,
                      CHOOSE i \in keep : \A j \in keep : i >= j)

\* str.replace(old, new): non-overlapping occurrences of a non-empty old,
\* left to right; ReplaceFrom is the result for s[i-1:]
RECURSIVE ReplaceFrom(_, _, _, _)
ReplaceFrom(s, i, old, new) ==
    IF i > Len(s) THEN <<>>
    ELSE IF i + Len(old) - 1 <= Len(s) /\ SubSeq(s, i, i + Len(old) - 1) = old
    THEN new \o ReplaceFrom(s, i + Len(old), old, new)
    ELSE <<s[i]>> \o ReplaceFrom(s, i + 1, old, new)

Replace(s, old, new) == ReplaceFrom(s, 1, old, new)

\* str.lower() on the letters the model uses
LowerChar(c) ==
    CASE c = "P" -> "p"
      [] c = "N" -> "n"
      [] c = "G" -> "g"
      [] OTHER -> c

Lower(s) == [i \in 1..Len(s) |-> LowerChar(s[i])]

(***************************************************************************)
(* Text constants.                                                         *)
(***************************************************************************)
Empty == <<>>
ImagePrefix == <<"i", "m", "a", "g", "e", "/">>
CtPng == ImagePrefix \o <<"p", "n", "g">>
CtPngParam == ImagePrefix \o <<"p", "n", "g", " ", "\t", ";", " ", "q">>
CtGif == ImagePrefix \o <<"g", "i", "f">>
CtUnknown == ImagePrefix \o <<"x">>
CtHtml == <<"t", "e", "x", "t", "/", "h", "t", "m", "l">>
CtSpacedPng == <<" ">> \o CtPng

ExtPng == <<".", "p", "n", "g">>
ExtGif == <<".", "g", "i", "f">>
ExtImg == <<".", "i", "m", "g">>
ExtHtml == <<".", "h", "t", "m", "l">>

UrlHost == <<"s", ":", "/", "/", "h">>
UrlGif == UrlHost \o <<"/", "a", ".", "g", "i", "f">>
UrlPngOther == UrlHost \o <<"/", "b", ".", "p", "n", "g">>
UrlNoSuffix == UrlHost \o <<"/", "a">>
UrlQuery == UrlHost \o <<"/", "a", ".", "g", "i", "f", "?", "v">>
UrlBare == UrlHost \o <<".", "i", "o">>

(***************************************************************************)
(* guess_extension and what it calls.                                      *)
(***************************************************************************)
\* mimetypes.guess_extension(type): the standard table restricted to the
\* types of the model; the lookup lower-cases the type; <<>> stands for None
MimeExtension(type) ==
    LET t == Lower(type)
    IN CASE t = CtPng -> ExtPng
         [] t = CtGif -> ExtGif
         [] t = CtHtml -> ExtHtml
         [] OTHER -> Empty

\* the non-empty, non-"." components of a "/"-separated path, in order;
\* PathPartsFrom is the result for s[i-1:]
RECURSIVE PathPartsFrom(_, _)
PathPartsFrom(s, i) ==
    IF i > Len(s) THEN <<>>
    ELSE LET slashes == {j \in i..Len(s) : s[j] = "/"}
             end == IF slashes = {} THEN Len(s) + 1
                    ELSE CHOOSE j \in slashes : \A k \in slashes : j <= k
             part == SubSeq(s, i, end - 1)
         IN (IF part = <<>> \/ part = <<".">> THEN <<>> ELSE <<part>>)
                \o PathPartsFrom(s, end + 1)

PathParts(s) == PathPartsFrom(s, 1)

\* PurePath.name: the final component
PathName(s) ==
    LET parts == PathParts(s) IN IF parts = <<>> THEN <<>> ELSE parts[Len(parts)]

\* PurePath.suffix: name[i:] where i is the last dot, if it is neither the
\* first nor the last character of the name
NameSuffix(name) ==
    LET i == RFind(name, <<".">>)
    IN IF 1 < i /\ i < Len(name) THEN SubSeq(name, i, Len(name)) ELSE <<>>

\* Path(url).suffix
PathSuffix(url) == NameSuffix(PathName(url))

guess_extension(content_type, url) ==
    LET extension == IF content_type # Empty
                     THEN MimeExtension(Strip(SplitFirst(content_type, <<";">>)))
                     ELSE Empty
        suffix == PathSuffix(url)
    IN IF content_type # Empty /\ extension # Empty THEN extension
       ELSE IF suffix # Empty THEN suffix
       ELSE ExtImg

(***************************************************************************)
(* Digests: hashlib.sha256(data).hexdigest() is modelled as an injective   *)
(* function of the data whose value is a non-empty text.                   *)
(***************************************************************************)
DigestPrefixLen == 16

Sha256Hex(data) == <<"#">> \o data

\* f"{digest[:16]}{extension}"
ImageFileName(digest, extension) == Take(digest, DigestPrefixLen) \o extension

(***************************************************************************)
(* Responses and the interceptor's decisions (save_response_images).       *)
(***************************************************************************)
ContentTypeHeader == "content-type"

\* dict.get(key, default)
HeadersGet(headers, key, default) ==
    IF key \in DOMAIN headers THEN headers[key] ELSE default

NoHeaders == [k \in {} |-> Empty]
WithContentType(ct) == ContentTypeHeader :> ct

TypeImage == "image"
TypeXhr == "xhr"

\* mutant: the resource-type filter of line 74 is missing
PassesFiltersAnyType(response) ==
    StartsWith(HeadersGet(response.headers, ContentTypeHeader, Empty), ImagePrefix)

\* lines 74 and 77: the two filters passed
PassesFilters(response) ==
    /\ response.resource_type = TypeImage
    /\ StartsWith(HeadersGet(response.headers, ContentTypeHeader, Empty), ImagePrefix)

\* mutant: the emptiness test of line 80 is missing
IsEmptyBodyNever(body) == FALSE

\* line 80: not body
IsEmptyBody(body) == body = Empty

\* mutant: the membership test of line 83 never finds the digest
AlreadySavedNever(digest, hashes) == FALSE

\* line 83
AlreadySaved(digest, hashes) == digest \in hashes

\* pathlib write_bytes / write_text: create or replace the file
WriteFile(files, name, data) == (name :> data) @@ files

NoFiles == [n \in {} |-> Empty]

(***************************************************************************)
(* Frames and save_frame_html.                                             *)
(***************************************************************************)
FramePrefix == <<"f", "r", "a", "m", "e", "_">>
SchemeSep == <<":", "/", "/">>
Slash == <<"/">>
Underscore == <<"_">>
PagePrefix == <<"p", "a", "g", "e", "_">>
HtmlSuffix == <<".", "h", "t", "m", "l">>

\* frame.url or f"frame_{frame.name}"
FrameKey(frame) == IF frame.url # Empty THEN frame.url ELSE FramePrefix \o frame.name

\* name.replace("://", "_").replace("/", "_")
SafeName(name) ==
    CHOOSE safe \in {Replace(first, Slash, Underscore) :
                        first \in {Replace(name, SchemeSep, Underscore)}} : TRUE

DigitChar(d) ==
    CASE d = 0 -> "0" [] d = 1 -> "1" [] d = 2 -> "2" [] d = 3 -> "3" [] d = 4 -> "4"
      [] d = 5 -> "5" [] d = 6 -> "6" [] d = 7 -> "7" [] d = 8 -> "8" [] d = 9 -> "9"

\* f"{n:04d}" for 0 <= n < 10000
Pad4(n) ==
    <<DigitChar((n \div 1000) % 10), DigitChar((n \div 100) % 10),
      DigitChar((n \div 10) % 10), DigitChar(n % 10)>>

\* f"page_{page_index:04d}_{safe_name}.html"
HtmlFileName(page_index, name) ==
    PagePrefix \o Pad4(page_index) \o Underscore \o SafeName(name) \o HtmlSuffix

\* str.encode("utf-8") on the characters the model uses
Utf8Char(c) ==
    CASE c = "a" -> "61"
      [] c = "b" -> "62"
      [] OTHER -> "3f"

Utf8Encode(text) == [i \in 1..Len(text) |-> Utf8Char(text[i])]

\* a dict is a sequence of [key, value] entries in insertion order;
\* d[key] = value keeps the position of a key already present
DictKeys(d) == {d[i].key : i \in 1..Len(d)}

DictSet(d, key, value) ==
    IF key \in DictKeys(d)
    THEN [i \in 1..Len(d) |-> IF d[i].key = key THEN [key |-> key, value |-> value] ELSE d[i]]
    ELSE Append(d, [key |-> key, value |-> value])

\* lines 127-132: the frames whose read succeeded, put into the dict in order
RECURSIVE ReadFrames(_, _, _)
ReadFrames(frames, ok, acc) ==
    IF frames = <<>> THEN acc
    ELSE ReadFrames(Tail(frames), Tail(ok),
                    IF Head(ok) THEN DictSet(acc, FrameKey(Head(frames)), Head(frames).html)
                    ELSE acc)

\* the bytes fed to combined.update, in the dict's order
RECURSIVE CombinedBytes(_)
CombinedBytes(contents) ==
    IF contents = <<>> THEN <<>>
    ELSE Utf8Encode(Head(contents).value) \o CombinedBytes(Tail(contents))

\* the files after the loop of save_frame_html
RECURSIVE WriteFrames(_, _, _)
WriteFrames(files, page_index, contents) ==
    IF contents = <<>> THEN files
    ELSE WriteFrames(WriteFile(files, HtmlFileName(page_index, Head(contents).key),
                               Head(contents).value),
                     page_index, Tail(contents))

\* mutant: the digest is fed the page index before the markup
save_frame_html_with_index(page_index, files, contents) ==
    [files |-> WriteFrames(files, page_index, contents),
     hexdigest |-> Sha256Hex(<<DigitChar(page_index % 10)>> \o CombinedBytes(contents))]

\* save_frame_html: the files it leaves and the digest it returns
save_frame_html(page_index, files, contents) ==
    [files |-> WriteFrames(files, page_index, contents),
     hexdigest |-> Sha256Hex(CombinedBytes(contents))]

(***************************************************************************)
(* Inputs: the responses and pages the environment can produce.            *)
(***************************************************************************)
BodyX == <<"89", "50">>
BodyY == <<"47">>

Response(rtype, headers, url, body) ==
    [resource_type |-> rtype, headers |-> headers, url |-> url, body |-> body]

\* same bytes under two URLs and two spellings of the content-type
RespPngA == Response(TypeImage, WithContentType(CtPng), UrlGif, BodyX)
RespPngB == Response(TypeImage, WithContentType(CtPngParam), UrlPngOther, BodyX)
\* types the table does not know
RespUnknownQuery == Response(TypeImage, WithContentType(CtUnknown), UrlQuery, BodyY)
RespUnknownBare == Response(TypeImage, WithContentType(CtUnknown), UrlBare, BodyY)
RespUnknownPlain == Response(TypeImage, WithContentType(CtUnknown), UrlNoSuffix, BodyX)
RespUnknownGif == Response(TypeImage, WithContentType(CtUnknown), UrlGif, BodyY)
\* empty body
RespEmpty == Response(TypeImage, WithContentType(CtPng), UrlGif, Empty)
\* filtered out
RespXhr == Response(TypeXhr, WithContentType(CtPng), UrlGif, BodyY)
RespNoHeader == Response(TypeImage, NoHeaders, UrlGif, BodyY)
RespHtml == Response(TypeImage, WithContentType(CtHtml), UrlGif, BodyY)
RespSpaced == Response(TypeImage, WithContentType(CtSpacedPng), UrlGif, BodyY)

ImageResponses ==
    {RespPngA, RespPngB, RespUnknownQuery, RespUnknownBare, RespUnknownPlain,
     RespEmpty, RespXhr, RespNoHeader, RespHtml, RespSpaced}

RunResponses == {RespPngA, RespPngB, RespUnknownGif}

MarkupA == <<"a">>
MarkupB == <<"b">>
FrameUrl == <<"s", ":", "/", "/", "h", "/", "a">>
FrameUrlTwin == <<"s", ":", "/", "/", "h", "_", "a">>
FrameNameN == <<"n">>

Frame(url, name, html) == [url |-> url, name |-> name, html |-> html]

\* a page of the book: one frame, whose markup is the page's content
PageA == <<Frame(FrameUrl, Empty, MarkupA)>>
PageB == <<Frame(FrameUrl, Empty, MarkupB)>>
\* two frames with different identifiers
PageTwo == <<Frame(FrameUrl, Empty, MarkupA), Frame(Empty, FrameNameN, MarkupB)>>
PageTwoSwapped == <<Frame(Empty, FrameNameN, MarkupB), Frame(FrameUrl, Empty, MarkupA)>>
\* two frames with the same URL
PageSameUrl == <<Frame(FrameUrl, Empty, MarkupA), Frame(FrameUrl, Empty, MarkupB)>>
\* two frames whose identifiers sanitize to the same name
PageTwins == <<Frame(FrameUrl, Empty, MarkupA), Frame(FrameUrlTwin, Empty, MarkupB)>>
\* three frames, two of them with the same URL
PageThree ==
    <<Frame(FrameUrl, Empty, MarkupA), Frame(FrameUrl, Empty, MarkupB),
      Frame(Empty, FrameNameN, MarkupA)>>
\* the markup "ab" in one frame
PageJoined == <<Frame(FrameUrl, Empty, MarkupA \o MarkupB)>>

BookPages == {PageA, PageB}
\* the pages of the whole program's runs: one frame, and two frames, so that
\* tasks run between the two reads of an iteration
RunPages == {PageA, PageTwo}
FramePages ==
    {PageA, PageTwo, PageTwoSwapped, PageSameUrl, PageTwins, PageThree, PageJoined}

\* which frame.content() calls of an iteration return
ReadOutcomes(frames) == [1..Len(frames) -> BOOLEAN]
\* the outcomes of one frame.content() call: it returns, or it may also raise
ReadResults(may_fail) == IF may_fail THEN BOOLEAN ELSE {TRUE}

\* the output directory when main() starts: build_paths creates html/ and
\* images/ if they are missing and removes nothing, so the directory is new
\* or holds the files of an earlier run: two pages of markup; an image not
\* served in this run, an image this run writes again under the same name,
\* and an image this run writes under another extension
BodyOld == <<"4f">>
EarlierHtml ==
    WriteFile(WriteFile(NoFiles, HtmlFileName(1, FrameUrl), MarkupB),
              HtmlFileName(2, FrameUrl), MarkupB)
EarlierImages ==
    WriteFile(WriteFile(WriteFile(NoFiles,
                                  ImageFileName(Sha256Hex(BodyOld), ExtPng), BodyOld),
                        ImageFileName(Sha256Hex(BodyX), ExtPng), BodyX),
              ImageFileName(Sha256Hex(BodyY), ExtPng), BodyY)
OutputDirs ==
    {[html |-> NoFiles, images |-> NoFiles],
     [html |-> EarlierHtml, images |-> EarlierImages]}

(***************************************************************************)
(* State.                                                                  *)
(***************************************************************************)
VARIABLES
    max_pages,        \* args.max_pages
    stop_unchanged,   \* args.stop_unchanged
    pc,               \* where main() is
    page_index,       \* the for loop's variable
    unchanged_count,
    last_hash,
    current_hash,
    frame_contents,   \* the dict built by the current iteration
    page_frames,      \* page.frames as enumerated by the current iteration
    read_ok,          \* the outcomes of its frame.content() calls so far
    html_files,       \* the html directory: file name -> text
    image_files,      \* the images directory: file name -> bytes
    saved_hashes,
    tasks,            \* the interceptor tasks created so far, in creation order
    turns,            \* ArrowRight presses issued so far
    hist,             \* fingerprints of the snapshots taken so far
    broke,            \* the loop was left by the break of line 143
    printed           \* the count printed by line 148, -1 before

loop_vars ==
    <<pc, page_index, unchanged_count, last_hash, current_hash, frame_contents,
      page_frames, read_ok, html_files, turns, hist, broke, printed>>
image_vars == <<image_files, saved_hashes, tasks>>
arg_vars == <<max_pages, stop_unchanged>>
vars == <<arg_vars, loop_vars, image_vars>>

\* main() is suspended in an await, so the event loop runs callbacks and tasks:
\* page.goto (120), each frame.content (130), keyboard.press /
\* wait_for_timeout (145-146), browser.close (149).  input() (122) blocks the
\* event loop.
EventLoopRuns == pc \in {"goto", "frames", "press", "close"}

InitWith(pages, stops) ==
    /\ max_pages \in pages
    /\ stop_unchanged \in stops
    /\ pc = "goto"
    /\ page_index = 0
    /\ unchanged_count = 0
    /\ last_hash = Empty
    /\ current_hash = Empty
    /\ frame_contents = <<>>
    /\ page_frames = <<>>
    /\ read_ok = <<>>
    /\ \E dir \in OutputDirs : html_files = dir.html /\ image_files = dir.images
    /\ saved_hashes = {}
    /\ tasks = <<>>
    /\ turns = 0
    /\ hist = <<>>
    /\ broke = FALSE
    /\ printed = -1

(***************************************************************************)
(* The image interceptor: one task per response (lines 113-118, 68-88).    *)
(***************************************************************************)
TaskIds == 1..Len(tasks)

SetTask(t, field, value) == [tasks EXCEPT ![t] = [@ EXCEPT ![field] = value]]

\* line 113-118: the "response" callback creates a task and returns
OnResponse(response, limit) ==
    /\ EventLoopRuns
    /\ Len(tasks) < limit
    /\ tasks' = Append(tasks, [response |-> response, pc |-> "created",
                               result |-> "none", wrote |-> Empty])
    /\ UNCHANGED <<arg_vars, loop_vars, image_files, saved_hashes>>

\* lines 73-79: the task runs up to its await of response.body()
TaskStart(t) ==
    /\ EventLoopRuns
    /\ tasks[t].pc = "created"
    /\ IF PassesFilters(tasks[t].response)
       THEN tasks' = SetTask(t, "pc", "body")
       ELSE tasks' = [tasks EXCEPT ![t] = [@ EXCEPT !.pc = "returned", !.result = "ignored"]]
    /\ UNCHANGED <<arg_vars, loop_vars, image_files, saved_hashes>>

\* lines 79-88: response.body() returned; the rest runs without suspension
TaskBody(t) ==
    /\ EventLoopRuns
    /\ tasks[t].pc = "body"
    /\ \E response \in {tasks[t].response} :
       \E body \in {response.body} :
       \E content_type \in {HeadersGet(response.headers, ContentTypeHeader, Empty)} :
       \E digest \in {Sha256Hex(body)} :
       \E filename \in {ImageFileName(digest, guess_extension(content_type, response.url))} :
          IF IsEmptyBody(body)
          THEN /\ tasks' = [tasks EXCEPT ![t] = [@ EXCEPT !.pc = "returned", !.result = "empty"]]
               /\ UNCHANGED <<image_files, saved_hashes>>
          ELSE IF AlreadySaved(digest, saved_hashes)
          THEN /\ tasks' = [tasks EXCEPT ![t] = [@ EXCEPT !.pc = "returned",
                                                            !.result = "duplicate"]]
               /\ UNCHANGED <<image_files, saved_hashes>>
          ELSE /\ saved_hashes' = saved_hashes \cup {digest}
               /\ image_files' = WriteFile(image_files, filename, body)
               /\ tasks' = [tasks EXCEPT ![t] = [@ EXCEPT !.pc = "returned",
                                                            !.result = "saved",
                                                            !.wrote = filename]]
    /\ UNCHANGED <<arg_vars, loop_vars>>

\* mutant: the exception of the body read reaches main() and ends the run
TaskBodyRaisesAborts(t) ==
    /\ EventLoopRuns
    /\ tasks[t].pc = "body"
    /\ tasks' = [tasks EXCEPT ![t] = [@ EXCEPT !.pc = "raised", !.result = "raised"]]
    /\ pc' = "exited"
    /\ UNCHANGED <<arg_vars, image_files, saved_hashes, page_index, unchanged_count,
                   last_hash, current_hash, frame_contents, page_frames, read_ok,
                   html_files, turns, hist, broke, printed>>

\* line 79: response.body() raised; nothing catches it, the task ends
TaskBodyRaises(t) ==
    /\ EventLoopRuns
    /\ tasks[t].pc = "body"
    /\ tasks' = [tasks EXCEPT ![t] = [@ EXCEPT !.pc = "raised", !.result = "raised"]]
    /\ UNCHANGED <<arg_vars, loop_vars, image_files, saved_hashes>>

(***************************************************************************)
(* main(): navigation, confirmation, the capture loop, shutdown.           *)
(***************************************************************************)
\* mutant: the initial previous hash is the digest of an empty snapshot
InitialLastHashOfNothing == Sha256Hex(Empty)

\* line 125
InitialLastHash == Empty

\* mutant: line 139 is missing, the new hash is not remembered
CompareForgets(current, last, count) ==
    IF current = last
    THEN [unchanged_count |-> count + 1, last_hash |-> last]
    ELSE [unchanged_count |-> 0, last_hash |-> last]

\* mutant: line 138 is missing, a change does not reset the counter
CompareKeepsCount(current, last, count) ==
    IF current = last
    THEN [unchanged_count |-> count + 1, last_hash |-> last]
    ELSE [unchanged_count |-> count, last_hash |-> current]

\* lines 135-139: the counter and the remembered hash after the comparison
Compare(current, last, count) ==
    IF current = last
    THEN [unchanged_count |-> count + 1, last_hash |-> last]
    ELSE [unchanged_count |-> 0, last_hash |-> current]

\* mutant: line 141 compares with > instead of >=
StopReachedStrict(count, threshold) == count > threshold

\* line 141
StopReached(count, threshold) == count >= threshold

\* mutant: the range of line 126 runs one index too far
HasNextIndexInclusive(index, limit) == index <= limit

\* line 126: range(1, max_pages + 1) has a value after index
HasNextIndex(index, limit) == index < limit

\* lines 126-130: after index the loop has another index, resets the dict,
\* enumerates page.frames (never empty: a page has its main frame) and is
\* suspended in the first frame.content(); or it has none and is left
LoopHead(index, pages) ==
    IF HasNextIndex(index, max_pages)
    THEN /\ pc' = "frames"
         /\ page_index' = index + 1
         /\ frame_contents' = <<>>
         /\ read_ok' = <<>>
         /\ \E frames \in pages : page_frames' = frames
    ELSE /\ pc' = "print"
         /\ UNCHANGED <<page_index, frame_contents, read_ok, page_frames>>

\* mutant: input() of line 122 is missing, the loop starts when page.goto
\* has returned
GotoDoneSkipsInput ==
    /\ pc = "goto"
    /\ LoopHead(0, RunPages)
    /\ UNCHANGED <<arg_vars, image_vars, unchanged_count, last_hash, current_hash,
                   html_files, turns, hist, broke, printed>>

\* line 120: page.goto returned; main goes on to print and input()
GotoDone ==
    /\ pc = "goto"
    /\ pc' = "input"
    /\ UNCHANGED <<arg_vars, image_vars, page_index, unchanged_count, last_hash,
                   current_hash, frame_contents, page_frames, read_ok, html_files,
                   turns, hist, broke, printed>>

\* lines 122-130: input() returned; the loop starts at index 1, if it has one
Confirm(pages) ==
    /\ pc = "input"
    /\ unchanged_count' = 0
    /\ last_hash' = InitialLastHash
    /\ LoopHead(0, pages)
    /\ UNCHANGED <<arg_vars, image_vars, current_hash, html_files, turns, hist,
                   broke, printed>>

\* lines 130-139: a frame.content() returned or raised (a failed read skips
\* the frame); main() is then suspended in the read of the next frame, or,
\* after the last frame, the snapshot is saved and hashed and the hash is
\* compared with the previous one
ReadFrame(ok) ==
    /\ pc = "frames"
    /\ \E i \in {Len(read_ok) + 1} :
       \E frame \in {page_frames[i]} :
       \E contents \in {IF ok THEN DictSet(frame_contents, FrameKey(frame), frame.html)
                        ELSE frame_contents} :
          /\ read_ok' = Append(read_ok, ok)
          /\ frame_contents' = contents
          /\ IF i < Len(page_frames)
             THEN /\ pc' = "frames"
                  /\ UNCHANGED <<html_files, current_hash, hist, unchanged_count,
                                 last_hash>>
             ELSE \E saved \in {save_frame_html(page_index, html_files, contents)} :
                  \E compared \in {Compare(saved.hexdigest, last_hash, unchanged_count)} :
                     /\ html_files' = saved.files
                     /\ current_hash' = saved.hexdigest
                     /\ hist' = Append(hist, saved.hexdigest)
                     /\ unchanged_count' = compared.unchanged_count
                     /\ last_hash' = compared.last_hash
                     /\ pc' = "compared"
    /\ UNCHANGED <<arg_vars, image_vars, page_index, page_frames, turns, broke, printed>>

\* mutant: the page turn of line 145 comes before the stop check of line 141
BreakAfterTurn ==
    /\ pc = "compared"
    /\ StopReached(unchanged_count, stop_unchanged)
    /\ turns' = turns + 1
    /\ broke' = TRUE
    /\ pc' = "print"
    /\ UNCHANGED <<arg_vars, image_vars, page_index, unchanged_count, last_hash,
                   current_hash, frame_contents, page_frames, read_ok, html_files,
                   hist, printed>>

\* lines 141-143
Break ==
    /\ pc = "compared"
    /\ StopReached(unchanged_count, stop_unchanged)
    /\ broke' = TRUE
    /\ pc' = "print"
    /\ UNCHANGED <<arg_vars, image_vars, page_index, unchanged_count, last_hash,
                   current_hash, frame_contents, page_frames, read_ok, html_files,
                   turns, hist, printed>>

\* line 145: the page turn is issued
PressKey ==
    /\ pc = "compared"
    /\ ~StopReached(unchanged_count, stop_unchanged)
    /\ turns' = turns + 1
    /\ pc' = "press"
    /\ UNCHANGED <<arg_vars, image_vars, page_index, unchanged_count, last_hash,
                   current_hash, frame_contents, page_frames, read_ok, html_files,
                   hist, broke, printed>>

\* mutant: the loop waits for the interceptor tasks before it goes on
NextPageAwaitsTasks(pages) ==
    /\ pc = "press"
    /\ \A t \in TaskIds : tasks[t].pc \notin {"created", "body"}
    /\ LoopHead(page_index, pages)
    /\ UNCHANGED <<arg_vars, image_vars, unchanged_count, last_hash, current_hash,
                   html_files, turns, hist, broke, printed>>

\* mutant: the saved-hash set is created anew in every iteration, as
\* frame_contents is in line 127
NextPageFreshSet(pages) ==
    /\ pc = "press"
    /\ LoopHead(page_index, pages)
    /\ saved_hashes' = {}
    /\ UNCHANGED <<arg_vars, image_files, tasks, unchanged_count, last_hash,
                   current_hash, html_files, turns, hist, broke, printed>>

\* lines 145-146, 126-130: press and delay are over; next index, or the loop
\* ends
NextPage(pages) ==
    /\ pc = "press"
    /\ LoopHead(page_index, pages)
    /\ UNCHANGED <<arg_vars, image_vars, unchanged_count, last_hash, current_hash,
                   html_files, turns, hist, broke, printed>>

\* line 148
PrintCount ==
    /\ pc = "print"
    /\ printed' = Cardinality(saved_hashes)
    /\ pc' = "close"
    /\ UNCHANGED <<arg_vars, image_vars, page_index, unchanged_count, last_hash,
                   current_hash, frame_contents, page_frames, read_ok, html_files,
                   turns, hist, broke>>

\* line 149 and the end of asyncio.run: the session is closed and the tasks
\* still pending are cancelled
Close ==
    /\ pc = "close"
    /\ pc' = "exited"
    /\ tasks' = [t \in TaskIds |->
                    IF tasks[t].pc \in {"created", "body"}
                    THEN [tasks[t] EXCEPT !.pc = "cancelled", !.result = "cancelled"]
                    ELSE tasks[t]]
    /\ UNCHANGED <<arg_vars, image_files, saved_hashes, page_index, unchanged_count,
                   last_hash, current_hash, frame_contents, page_frames, read_ok,
                   html_files, turns, hist, broke, printed>>

(***************************************************************************)
(* Specifications.                                                         *)
(***************************************************************************)
Interceptor(responses, limit) ==
    \/ \E response \in responses : OnResponse(response, limit)
    \/ \E t \in TaskIds : TaskStart(t)
    \/ \E t \in TaskIds : TaskBody(t)
    \/ \E t \in TaskIds : TaskBodyRaises(t)

Main(pages, may_fail) ==
    \/ GotoDone
    \/ Confirm(pages)
    \/ \E ok \in ReadResults(may_fail) : ReadFrame(ok)
    \/ Break
    \/ PressKey
    \/ NextPage(pages)
    \/ PrintCount
    \/ Close

\* the whole program
Init == InitWith(0..RunMaxPages, {RunMaxStop})
Next == Interceptor(RunResponses, RunMaxResponses) \/ Main(RunPages, FALSE)
Spec == Init /\ [][Next]_vars
FairSpec == Spec /\ WF_vars(Main(RunPages, FALSE))

\* the capture loop alone: no response is observed
LoopInit == InitWith(0..MaxPages, 0..MaxStop)
LoopNext == Main(BookPages, TRUE)
LoopSpec == LoopInit /\ [][LoopNext]_vars
LoopFairSpec == LoopSpec /\ WF_vars(LoopNext)

\* the capture loop on pages of several frames
FrameInit == InitWith(1..FrameMaxPages, {RunMaxStop})
FrameNext == Main(FramePages, TRUE)
FrameSpec == FrameInit /\ [][FrameNext]_vars

\* the interceptor alone, while main() awaits page.goto
ImageInit == InitWith({RunMaxPages}, {RunMaxStop})
ImageNext == Interceptor(ImageResponses, MaxResponses)
ImageSpec == ImageInit /\ [][ImageNext]_vars

(***************************************************************************)
(* Properties.                                                             *)
(***************************************************************************)
Response_(t) == tasks[t].response
ContentTypeOf(t) == HeadersGet(Response_(t).headers, ContentTypeHeader, Empty)

\* the tasks that wrote a file holding these bytes
Savers(body) == {t \in TaskIds : tasks[t].result = "saved" /\ Response_(t).body = body}
\* the image files written in this run that hold these bytes (the directory
\* may hold files of earlier runs as well)
FilesHolding(body) ==
    {n \in {tasks[t].wrote : t \in {u \in TaskIds : tasks[u].result = "saved"}} :
        n \in DOMAIN image_files /\ image_files[n] = body}
\* the tasks whose response passed the filters and whose body, these bytes,
\* was read and processed to the end
Processed(body) ==
    {t \in TaskIds : /\ tasks[t].pc = "returned"
                     /\ tasks[t].result # "ignored"
                     /\ Response_(t).body = body}

\* C1: for every non-empty content, however many responses carry it and in
\* whatever order their tasks are resumed, at most one task writes a file for
\* it, and exactly one does (and exactly one file holds it) once a task
\* carrying it has been processed.
C1_OneFilePerContent ==
    \A body \in {Response_(t).body : t \in TaskIds} \ {Empty} :
        /\ Cardinality(Savers(body)) <= 1
        /\ Cardinality(FilesHolding(body)) <= 1
        /\ Processed(body) # {} =>
              /\ Cardinality(Savers(body)) = 1
              /\ Cardinality(FilesHolding(body)) = 1
              /\ Sha256Hex(body) \in saved_hashes

\* three responses with the same bytes under different URLs, all processed,
\* and the one that wrote the file is not the one created first
C1_Witness ==
    \E t1, t2, t3 \in TaskIds :
        /\ t1 < t2 /\ t2 < t3
        /\ Response_(t1).body = BodyX /\ Response_(t2).body = BodyX
        /\ Response_(t3).body = BodyX
        /\ Response_(t1).url # Response_(t2).url
        /\ Response_(t2).url # Response_(t3).url
        /\ Response_(t1).url # Response_(t3).url
        /\ tasks[t1].result = "duplicate"
        /\ tasks[t2].result = "saved"
        /\ tasks[t3].result = "duplicate"

\* the number of most recent snapshots each of which has the fingerprint of
\* the snapshot before it
RECURSIVE TrailingRun(_)
TrailingRun(h) ==
    IF Len(h) < 2 THEN 0
    ELSE IF h[Len(h)] = h[Len(h) - 1] THEN 1 + TrailingRun(SubSeq(h, 1, Len(h) - 1))
    ELSE 0

LoopOver == pc \in {"print", "close", "exited"}

\* C2: the loop stops on the counter exactly when stop-unchanged consecutive
\* fingerprints equal to their predecessor have been observed: at the break
\* the run of such fingerprints is exactly stop-unchanged long, no page turn
\* and no further snapshot happens once the run is that long, and a loop that
\* ended without the break ended on max_pages with a shorter run.
C2_StopsExactlyAtThreshold ==
    /\ broke => TrailingRun(hist) = stop_unchanged
    /\ pc = "press" => TrailingRun(hist) < stop_unchanged
    /\ (pc = "frames" /\ hist # <<>>) => TrailingRun(hist) < stop_unchanged
    /\ (LoopOver /\ ~broke) =>
          /\ Len(hist) = max_pages
          /\ (hist # <<>> => TrailingRun(hist) < stop_unchanged)

\* content changed, then stabilized; the loop stopped on the counter before
\* max_pages with a threshold of at least 2
C2_Witness ==
    /\ broke
    /\ stop_unchanged >= 2
    /\ Len(hist) = stop_unchanged + 2
    /\ hist[1] # hist[2]
    /\ Len(hist) < max_pages

\* C3: whatever the fingerprints, no more than max_pages snapshots are taken,
\* the page index never exceeds max_pages, and the run comes to its end.
C3_BoundedByMaxPages ==
    /\ [](Len(hist) <= max_pages /\ page_index <= max_pages)
    /\ <>(pc = "exited")

\* content never repeated and the loop ended after max_pages snapshots
C3_Witness ==
    /\ pc = "exited"
    /\ ~broke
    /\ max_pages >= 3
    /\ Len(hist) = max_pages
    /\ \A i \in 1..(Len(hist) - 1) : hist[i] # hist[i + 1]
    /\ turns = max_pages

AllEqual(h) == \A i \in 1..Len(h) : h[i] = h[1]

\* C4 as stated: under --stop-unchanged 2 a run of snapshots that all have
\* the same fingerprint is stopped after the second snapshot, counter 2,
\* 2 page turns.
C4_AsStated ==
    (stop_unchanged = 2 /\ broke /\ AllEqual(hist)) =>
        (Len(hist) = 2 /\ unchanged_count = 2 /\ turns = 2)

\* C4 amended: under --stop-unchanged 2 a run of snapshots that all have the
\* same fingerprint is stopped after the third snapshot (the second one equal
\* to its predecessor), counter 2, 2 page turns, and no third page turn is
\* issued after the third snapshot.
C4_StopsAfterThirdSnapshot ==
    /\ (stop_unchanged = 2 /\ broke /\ AllEqual(hist)) =>
          (Len(hist) = 3 /\ unchanged_count = 2 /\ turns = 2)
    /\ (stop_unchanged = 2 /\ AllEqual(hist) /\ Len(hist) = 3) =>
          (pc \in {"compared", "print", "close", "exited"} /\ turns = 2)
    /\ (stop_unchanged = 2 /\ AllEqual(hist) /\ Len(hist) = 3 /\ LoopOver) => broke

C4_Witness ==
    /\ stop_unchanged = 2
    /\ broke
    /\ Len(hist) = 3
    /\ AllEqual(hist)
    /\ unchanged_count = 2
    /\ turns = 2

\* C5 as stated: for every stop-unchanged, the first fingerprint differs from
\* the empty sentinel and a break is preceded by at least one page turn.
C5_AsStated ==
    /\ hist # <<>> => hist[1] # Empty
    /\ broke => turns >= 1

\* C5 amended: the first fingerprint always differs from the empty sentinel,
\* so the first comparison leaves the counter at 0; for stop-unchanged >= 1
\* a break is preceded by at least one page turn; for stop-unchanged < 1 the
\* break comes in the first iteration, before any page turn.
C5_TurnBeforeStop ==
    /\ hist # <<>> => hist[1] # Empty
    /\ (Len(hist) = 1 /\ pc = "compared") => unchanged_count = 0
    /\ (stop_unchanged >= 1 /\ broke) => turns >= 1
    /\ (stop_unchanged < 1 /\ broke) => (turns = 0 /\ Len(hist) = 1)

\* the earliest possible stop: threshold 1, an empty first snapshot (every
\* frame read failed), break at the second snapshot after one page turn
C5_Witness ==
    /\ stop_unchanged = 1
    /\ broke
    /\ Len(hist) = 2
    /\ hist[1] = Sha256Hex(Empty)
    /\ turns = 1

\* the step in which task t leaves position "from"
Leaves(t, from) == tasks[t].pc = from /\ tasks'[t].pc \notin {from, "cancelled"}

\* C6: the step that resumes a task whose response passed the filters and
\* whose body is empty writes no file and leaves the saved-hash set as it is.
C6_EmptyBodyIgnored ==
    [][\A t \in TaskIds :
          (Leaves(t, "body") /\ tasks'[t].pc = "returned" /\ Response_(t).body = Empty) =>
              /\ saved_hashes' = saved_hashes
              /\ image_files' = image_files
              /\ tasks'[t].wrote = Empty]_vars

\* an empty-bodied image response was handled after an image had been saved
C6_Witness ==
    \E t \in TaskIds :
        /\ Response_(t).resource_type = TypeImage
        /\ StartsWith(ContentTypeOf(t), ImagePrefix)
        /\ Response_(t).body = Empty
        /\ tasks[t].result = "empty"
        /\ saved_hashes # {}
        /\ Sha256Hex(Empty) \notin saved_hashes

\* the responses C7 is about
NotAnImageResponse(response) ==
    \/ response.resource_type # TypeImage
    \/ ContentTypeHeader \notin DOMAIN response.headers
    \/ ~StartsWith(response.headers[ContentTypeHeader], ImagePrefix)

\* C7: a task whose request is not an image or whose content-type is missing
\* or lacks the image prefix never waits for the body, and the step that
\* runs it ends it without touching the files or the saved-hash set.
C7_FilteredUntouched ==
    /\ [](\A t \in TaskIds : NotAnImageResponse(Response_(t)) => tasks[t].pc # "body")
    /\ [][\A t \in TaskIds :
             (Leaves(t, "created") /\ NotAnImageResponse(Response_(t))) =>
                 /\ tasks'[t].pc = "returned"
                 /\ tasks'[t].wrote = Empty
                 /\ saved_hashes' = saved_hashes
                 /\ image_files' = image_files]_vars

\* all three kinds were handled, carrying bytes the set does not hold
C7_Witness ==
    \E t1, t2, t3 \in TaskIds :
        /\ Response_(t1).resource_type # TypeImage
        /\ Response_(t2).headers = NoHeaders
        /\ Response_(t3) = RespHtml
        /\ \A t \in {t1, t2, t3} :
              /\ tasks[t].pc = "returned"
              /\ Response_(t).body # Empty
              /\ Sha256Hex(Response_(t).body) \notin saved_hashes
        /\ image_files \in {dir.images : dir \in OutputDirs}

\* the path of a URL: what follows scheme and authority, without query and
\* fragment
UrlPath(url) ==
    LET plain == SplitFirst(SplitFirst(url, <<"#">>), <<"?">>)
        s == Find(plain, SchemeSep)
        rest == IF s = 0 THEN plain ELSE Drop(plain, s + 2)
        i == Find(rest, Slash)
    IN IF i = 0 THEN <<>> ELSE Drop(rest, i - 1)

UrlPathSuffix(url) == NameSuffix(PathName(UrlPath(url)))

\* the extension C8 describes
ClaimedExtension(content_type, url) ==
    LET fromTable == MimeExtension(Strip(SplitFirst(content_type, <<";">>)))
    IN IF fromTable # Empty THEN fromTable
       ELSE IF UrlPathSuffix(url) # Empty THEN UrlPathSuffix(url)
       ELSE ExtImg

\* C8: every saved image's file name is the digest prefix followed by the
\* table's extension for the content-type if it has one, else by the suffix
\* of the URL's path if it has one, else by ".img".
C8_ExtensionPriority ==
    \A t \in TaskIds :
        tasks[t].result = "saved" =>
            tasks[t].wrote =
                Take(Sha256Hex(Response_(t).body), DigestPrefixLen)
                    \o ClaimedExtension(ContentTypeOf(t), Response_(t).url)

\* C9: the step in which a body read raises changes nothing but that task
\* (no file, no digest, no other task, nothing of the capture loop), and
\* once a read has raised the run still comes to its end.
C9_BodyFailureIsLocal ==
    /\ [][\A t \in TaskIds :
             (Leaves(t, "body") /\ tasks'[t].pc = "raised") =>
                 /\ saved_hashes' = saved_hashes
                 /\ image_files' = image_files
                 /\ tasks'[t].wrote = Empty
                 /\ \A u \in TaskIds \ {t} : tasks'[u] = tasks[u]
                 /\ UNCHANGED loop_vars]_vars
    /\ (\E t \in TaskIds : tasks[t].pc = "raised") ~> (pc = "exited")

\* a body read raised, a later response with the same bytes was saved, and
\* the loop ended by its break
C9_Witness ==
    \E t, u \in TaskIds :
        /\ t < u
        /\ tasks[t].result = "raised"
        /\ tasks[u].result = "saved"
        /\ Response_(u).body = Response_(t).body
        /\ broke
        /\ turns >= 1
        /\ pc = "exited"

\* frame i of the current iteration is in the snapshot
InSnapshot(i) ==
    \E k \in 1..Len(frame_contents) :
        /\ frame_contents[k].key = FrameKey(page_frames[i])
        /\ frame_contents[k].value = page_frames[i].html

\* C10: in an iteration in which a frame read failed, every frame that was
\* read successfully is in the snapshot.
C10_OtherFramesKept ==
    (pc = "compared" /\ \E i \in 1..Len(read_ok) : ~read_ok[i]) =>
        \A j \in 1..Len(read_ok) : read_ok[j] => InSnapshot(j)

\* C11: the page turns never exceed max_pages; a page turn is issued only
\* after a comparison whose stop check did not fire, and the step that breaks
\* issues none; a run stopped by the counter at snapshot k has issued k - 1
\* page turns, and a run that went through all of max_pages has issued
\* max_pages page turns.
C11_TurnsFollowStopCheck ==
    /\ [](/\ turns <= max_pages
          /\ broke => (turns = Len(hist) - 1 /\ page_index = Len(hist))
          /\ (LoopOver /\ ~broke) => turns = max_pages)
    /\ [][/\ turns' # turns =>
                /\ turns' = turns + 1
                /\ pc = "compared"
                /\ TrailingRun(hist) < stop_unchanged
                /\ ~broke'
          /\ (broke' /\ ~broke) => turns' = turns
          /\ broke => turns' = turns]_vars

\* the counter stopped the run at the fourth snapshot, before max_pages,
\* after a change of content
C11_Witness ==
    /\ broke
    /\ pc = "exited"
    /\ Len(hist) = 4
    /\ hist[1] # hist[2]
    /\ turns = 3
    /\ max_pages > 4

\* the contents whose file was written by a task
WrittenContents == {Response_(t).body : t \in {u \in TaskIds : tasks[u].result = "saved"}}

\* the image files written in this run
WrittenFiles == {tasks[t].wrote : t \in {u \in TaskIds : tasks[u].result = "saved"}}

\* the size of the saved-hash set is the number of distinct contents whose
\* file was written, and the number of image files written in this run
HashesMatchFiles ==
    /\ Cardinality(saved_hashes) = Cardinality(WrittenContents)
    /\ Cardinality(saved_hashes) = Cardinality(WrittenFiles)
    /\ WrittenFiles \subseteq DOMAIN image_files
    /\ saved_hashes = {Sha256Hex(body) : body \in WrittenContents}

\* C12: the count printed at the end equals the number of image files saved
\* during the run, and between the steps of the tasks the size of the
\* saved-hash set equals the number of distinct contents whose file was
\* written.
C12_PrintedCountIsFilesSaved ==
    /\ HashesMatchFiles
    /\ pc = "exited" => printed = Cardinality(WrittenFiles)

\* C13: once an iteration has compared, the stop counter is the length of
\* the run of most recent snapshots each with the fingerprint of the one
\* before it (0 after the first iteration, 0 when the latest fingerprint
\* differs from its predecessor), and the remembered fingerprint is that of
\* the snapshot just taken.
C13_CounterIsTrailingRun ==
    hist # <<>> =>
        /\ unchanged_count = TrailingRun(hist)
        /\ Len(hist) = 1 => unchanged_count = 0
        /\ (Len(hist) > 1 /\ hist[Len(hist)] # hist[Len(hist) - 1]) => unchanged_count = 0
        /\ last_hash = hist[Len(hist)]
        /\ last_hash = current_hash

\* the counter went up, was reset by a change, and went up again
C13_Witness ==
    /\ pc = "compared"
    /\ Len(hist) = 4
    /\ hist[1] = hist[2]
    /\ hist[2] # hist[3]
    /\ hist[3] = hist[4]
    /\ unchanged_count = 1
    /\ last_hash = hist[4]

\* C14: no step removes a digest from the saved-hash set, whatever the
\* interleaving of tasks and loop iterations; a step of the capture loop
\* leaves the set as it is; the digest of every content a task has written
\* is still in the set.
C14_HashSetOnlyGrows ==
    /\ [][/\ saved_hashes \subseteq saved_hashes'
          /\ loop_vars' # loop_vars => saved_hashes' = saved_hashes]_vars
    /\ [](\A t \in TaskIds :
             tasks[t].result = "saved" => Sha256Hex(Response_(t).body) \in saved_hashes)

\* two tasks inserted a digest each, and both digests are in the set when
\* the run has ended after two snapshots and a page turn
C14_Witness ==
    /\ pc = "exited"
    /\ Len(hist) = 2
    /\ turns >= 1
    /\ Cardinality(saved_hashes) = 2
    /\ \E t, u \in TaskIds :
          /\ t < u
          /\ tasks[t].result = "saved"
          /\ tasks[u].result = "saved"

\* the encoded markup of the frames of the current iteration whose read
\* succeeded, from frame i on, in enumeration order
RECURSIVE ReadMarkupFrom(_)
ReadMarkupFrom(i) ==
    IF i > Len(page_frames) THEN <<>>
    ELSE (IF read_ok[i] THEN Utf8Encode(page_frames[i].html) ELSE <<>>)
             \o ReadMarkupFrom(i + 1)

\* frame j of the current iteration has its file, holding its markup
FramePersisted(j) ==
    \E name \in {HtmlFileName(page_index, FrameKey(page_frames[j]))} :
        /\ name \in DOMAIN html_files
        /\ html_files[name] = page_frames[j].html

\* C15: after an iteration every frame whose content was read has a file,
\* named from the page index and its sanitized identifier, that holds its
\* markup, and the fingerprint covers the markup of all of these frames,
\* also when identifiers or their sanitized forms coincide.
C15_EveryReadFramePersisted ==
    pc = "compared" =>
        /\ \A j \in 1..Len(read_ok) : read_ok[j] => FramePersisted(j)
        /\ current_hash = Sha256Hex(ReadMarkupFrom(1))

\* the frames of the current iteration have pairwise different file names
DistinctFileNames ==
    \A i, j \in 1..Len(page_frames) :
        i # j => SafeName(FrameKey(page_frames[i])) # SafeName(FrameKey(page_frames[j]))

\* the markup of a snapshot, concatenated in the snapshot's order
RECURSIVE ConcatMarkup(_)
ConcatMarkup(contents) ==
    IF contents = <<>> THEN <<>>
    ELSE Head(contents).value \o ConcatMarkup(Tail(contents))

\* the snapshots the pages of FrameSpec can give
PossibleSnapshots ==
    UNION {{ReadFrames(frames, ok, <<>>) : ok \in ReadOutcomes(frames)} : frames \in FramePages}

\* C16: the fingerprint of a snapshot is the digest of its concatenated
\* markup: any snapshot, saved under any page index, gets the same
\* fingerprint as the one just taken exactly when its concatenated markup is
\* the same, whatever its frame identifiers and the split of the markup
\* across frames; the same frames in an order that changes the concatenation
\* get another fingerprint.
C16_FingerprintOfConcatenation ==
    pc = "compared" =>
        /\ current_hash = Sha256Hex(Utf8Encode(ConcatMarkup(frame_contents)))
        /\ \A other \in PossibleSnapshots : \A n \in 1..FrameMaxPages :
              (save_frame_html(n, NoFiles, other).hexdigest = current_hash)
                  <=> (ConcatMarkup(other) = ConcatMarkup(frame_contents))

\* page 1 had the markup "ab" in one frame, page 2 has it split over two
\* frames with other identifiers: same fingerprint, the counter went up
C16_Witness ==
    /\ pc = "compared"
    /\ page_index = 2
    /\ page_frames = PageTwo
    /\ Len(frame_contents) = 2
    /\ HtmlFileName(1, FrameUrl) \in DOMAIN html_files
    /\ html_files[HtmlFileName(1, FrameUrl)] = MarkupA \o MarkupB
    /\ hist[1] = hist[2]
    /\ unchanged_count = 1

\* C17: every response gets a task of its own, and the capture loop does not
\* wait for any of them: while the run has not ended main() has a step to
\* take whatever the tasks are doing, a step of main() resumes no task, and
\* once a task is suspended in its body read the run still comes to its
\* end, also if that task is never resumed (no step of a task is required
\* to happen).
C17_LoopIndependentOfTasks ==
    /\ [](pc # "exited" => ENABLED Main(RunPages, FALSE))
    /\ [][\A t \in TaskIds :
             (tasks[t].pc = "body" /\ loop_vars' # loop_vars) =>
                 tasks'[t].pc \in {"body", "cancelled"}]_vars
    /\ (\E t \in TaskIds : tasks[t].pc = "body") ~> (pc = "exited")

\* a task is still suspended in its body read when the loop is over, after
\* two snapshots and a page turn; a task created after it has saved its image
C17_Witness ==
    \E t, u \in TaskIds :
        /\ t < u
        /\ tasks[t].pc = "body"
        /\ tasks[u].result = "saved"
        /\ pc = "close"
        /\ Len(hist) = 2
        /\ turns >= 1

\* main() has not yet received the confirmation of line 122
BeforeConfirmation == pc \in {"goto", "input"}

\* C18: before the confirmation no snapshot has been taken, no file of
\* markup written and no page turn issued; the navigation is always followed
\* by the wait for the confirmation, and the loop is entered only from that
\* wait; the interceptor is registered during the navigation already, and
\* what the tasks do before the confirmation is deduplicated by content.
C18_ConfirmationBarrier ==
    /\ [](BeforeConfirmation =>
             /\ hist = <<>> /\ turns = 0 /\ page_index = 0
             /\ html_files \in {dir.html : dir \in OutputDirs}
             /\ \A body \in {Response_(t).body : t \in TaskIds} \ {Empty} :
                   /\ Cardinality(Savers(body)) <= 1
                   /\ Processed(body) # {} => Sha256Hex(body) \in saved_hashes)
    /\ [][/\ pc = "goto" => pc' \in {"goto", "input"}
          /\ BeforeConfirmation => html_files' = html_files
          /\ ~BeforeConfirmation => ~BeforeConfirmation'
          /\ (hist' # hist \/ turns' # turns) => ~BeforeConfirmation]_vars
    /\ []((pc = "goto" /\ Len(tasks) < RunMaxResponses) =>
             ENABLED (\E response \in RunResponses : OnResponse(response, RunMaxResponses)))

\* main() is waiting for the confirmation; during the navigation two
\* responses with the same bytes under different URLs were observed, one was
\* saved and the other found to be a duplicate
C18_Witness ==
    /\ pc = "input"
    /\ hist = <<>>
    /\ turns = 0
    /\ \E t, u \in TaskIds :
          /\ tasks[t].result = "saved"
          /\ tasks[u].result = "duplicate"
          /\ Response_(t).url # Response_(u).url
          /\ Response_(t).body = Response_(u).body

====
